---- MODULE Spec2Model ----
(***************************************************************************)
(* LE-PSI: the server-side life cycle of pkg/psi (ServerInitialize,        *)
(* parameter publication, client encryption, DetectIntersectionWithContext)*)
(* as a state machine.  The lattice arithmetic of pkg/LE is abstracted to  *)
(* key identities and tree indices; the orchestration, the worker pools,   *)
(* the store faults and the wire format are modelled step by step.         *)
(***************************************************************************)
EXTENDS Integers, Sequences, FiniteSets, TLC

(***************************************************************************)
(* Bounds of the model.  The ring is scaled down: TLC integers are 32 bit, *)
(* the program's Q is about 2^58 and its D is 256.                          *)
(***************************************************************************)
MaxX == 2
MaxY == 3
MaxWork == 4
MaxFaults == 1
Q == 13
D == 2
N == 2
qBits == 4
MaxHash == 40
MaxLayers == 6
MaxSize == 40
MaxRecords == 130
MaxPairs == 2

\* Fingerprints used as inputs: 42 and 106 agree on their low 6 bits, 7 does not.
FP == {42, 106, 7}

\* Noise parameters set by LE.Setup (standard deviation and cut-off bound).
SetupSigma == 3
SetupBound == 19

\* SetupLEParameters: D = 256, the program's ring dimension.
RingDimension == 256

\* ServerInitialize: c = 16 (slots per item).
ExpansionFactor == 16

\* CalculateOptimalWorkers: constants of the reference platform.
hardwareLimit == 48
practicalMinimum == 8
cacheMinimum == 16
cacheThreshold == 100

(***************************************************************************)
(* Pure helpers                                                            *)
(***************************************************************************)
RECURSIVE Pow2(_)
Pow2(n) == IF n = 0 THEN 1 ELSE 2 * Pow2(n - 1)

Range(s) == {s[i] : i \in 1..Len(s)}

Min2(a, b) == IF a < b THEN a ELSE b

\* floor(sqrt(m))
ISqrt(m) == CHOOSE r \in 0..(m + 1) : r * r <= m /\ (r + 1) * (r + 1) > m

\* Faulty variant of CeilLog2: the logarithm is rounded down.
FloorLog2(v) == CHOOSE L \in 0..30 : Pow2(L) <= v /\ Pow2(L + 1) > v

\* int(math.Ceil(math.Log2(c * float64(size)))) for size >= 1
CeilLog2(v) == CHOOSE L \in 0..30 : Pow2(L) >= v /\ (L = 0 \/ Pow2(L - 1) < v)

\* Faulty variant of ReduceToTreeIndex: the mask is never applied.
ReduceToTreeIndexNoMask(rawHash, layers) == rawHash

\* ReduceToTreeIndex: rawHash & mask, mask = all ones if layers is 0 or >= 64
ReduceToTreeIndex(rawHash, layers) ==
    IF layers = 0 \/ layers >= 64 THEN rawHash ELSE rawHash % Pow2(layers)

\* CalculateOptimalWorkers, in exact integer arithmetic:
\*   estimatedMemory = n * 0.035 * 1.15 = n * 4025 / 100000
\*   estimatedMemory > 117 * 0.6         <=>  n * 4025 > 7020000
\*   int(117*0.85 / estimatedMemory * 48) = floor(477360000 / (4025 * n))
\*   int(1.5 * sqrt(n))                   = floor(sqrt(9 n)) div 2
MemoryLimit(datasetSize) ==
    IF datasetSize * 4025 > 7020000
    THEN 477360000 \div (4025 * datasetSize)
    ELSE hardwareLimit

\* Faulty variant of CacheLimit: the cache rule starts at 100 records.
CacheLimitFromThreshold(datasetSize) ==
    IF datasetSize >= cacheThreshold
    THEN LET c0 == ISqrt(9 * datasetSize) \div 2
             c1 == IF c0 > hardwareLimit THEN hardwareLimit ELSE c0
         IN  IF c1 < cacheMinimum THEN cacheMinimum ELSE c1
    ELSE hardwareLimit

CacheLimit(datasetSize) ==
    IF datasetSize > cacheThreshold
    THEN LET c0 == ISqrt(9 * datasetSize) \div 2
             c1 == IF c0 > hardwareLimit THEN hardwareLimit ELSE c0
         IN  IF c1 < cacheMinimum THEN cacheMinimum ELSE c1
    ELSE hardwareLimit

\* Faulty variant of CalculateOptimalWorkers: the practical minimum is not
\* enforced.
CalculateOptimalWorkersNoMinimum(datasetSize) ==
    Min2(Min2(MemoryLimit(datasetSize), CacheLimit(datasetSize)), hardwareLimit)

CalculateOptimalWorkers(datasetSize) ==
    LET o1 == Min2(MemoryLimit(datasetSize), CacheLimit(datasetSize))
        o2 == Min2(o1, hardwareLimit)
    IN  IF o2 < practicalMinimum THEN practicalMinimum ELSE o2

(***************************************************************************)
(* Ring elements: a polynomial is its D coefficients, a vector a sequence  *)
(* of polynomials, a matrix a sequence of rows.                            *)
(***************************************************************************)
Coeffs == 1..D

ZeroPoly == [c \in Coeffs |-> 0]

\* ring.NewPoly() followed by copy(poly.Coeffs[0], src): min(len) coefficients
\* are copied, the rest stay zero.
CopyPoly(src) ==
    [c \in Coeffs |-> IF c <= Len(src) THEN src[c] ELSE 0]

\* The public matrices: sampled once by LE.Setup with a fixed PRNG.
SampleMatrix(rows, cols, seed) ==
    [i \in 1..rows |-> [j \in 1..cols |->
        [c \in Coeffs |-> (seed + 7 * i + 3 * j + 5 * c) % Q]]]

M == N * qBits
M2 == 2 * M

\* LE.Setup(Q, qBits, D, N) followed by the Layers assignment of
\* SetupLEParameters.
SetupLEParameters(size) ==
    [Q |-> Q, D |-> D, N |-> N, M |-> M, M2 |-> M2,
     Layers |-> CeilLog2(ExpansionFactor * size),
     Sigma |-> SetupSigma, Bound |-> SetupBound,
     A0NTT |-> SampleMatrix(N, M, 1), A1NTT |-> SampleMatrix(N, M, 2),
     BNTT |-> SampleMatrix(N, M2, 3), GNTT |-> SampleMatrix(N, M, 4)]

\* The message polynomial is a fresh random binary polynomial.
Messages == {[c \in Coeffs |-> c % 2], [c \in Coeffs |-> 1]}

\* The tree digest (layer 0, row 0) as a function of the committed leaves:
\* a vector of N polynomials.
RECURSIVE LeafSum(_, _)
LeafSum(leaves, S) ==
    IF S = {} THEN 0
    ELSE LET t == CHOOSE x \in S : TRUE
         IN  ((t + 1) * (leaves[t] + 2) + LeafSum(leaves, S \ {t})) % Q

ReadDigest(leaves) ==
    [i \in 1..N |-> [c \in Coeffs |-> (LeafSum(leaves, DOMAIN leaves) * (i + c)) % Q]]

(***************************************************************************)
(* Worker pools.  Every parallel phase has the same shape: a buffered      *)
(* channel of capacity `cap`, numWorkers goroutines ranging over it, a     *)
(* producer that sends the items 1..cap in order and closes the channel,   *)
(* and a WaitGroup.  Workers are interchangeable, so the pool counts the   *)
(* idle ones and names the items in flight.                                *)
(***************************************************************************)
NoPool == [cap |-> 0, sent |-> 0, taken |-> 0, inflight |-> {}, closed |-> FALSE, idle |-> 0]

\* make(chan T, cap); numWorkers goroutines started
PoolNew(cap, numWorkers) ==
    [cap |-> cap, sent |-> 0, taken |-> 0, inflight |-> {}, closed |-> FALSE,
     idle |-> numWorkers]

\* workChan <- i  (blocks when the buffer is full)
PoolCanSend(p) == ~p.closed /\ p.sent < p.cap /\ p.sent - p.taken < p.cap
PoolSend(p) == [p EXCEPT !.sent = @ + 1]

\* close(workChan)
PoolClose(p) == [p EXCEPT !.closed = TRUE]

\* for i := range workChan: the head of the channel goes to an idle worker
PoolCanTake(p) == p.taken < p.sent /\ p.idle > 0
PoolHead(p) == p.taken + 1
PoolTake(p) ==
    [p EXCEPT !.taken = @ + 1, !.inflight = @ \cup {p.taken + 1}, !.idle = @ - 1]

\* the loop body has ended: the worker is back at the range statement
PoolFinish(p, item) == [p EXCEPT !.inflight = @ \ {item}, !.idle = @ + 1]

\* the worker holding `item` returns out of its loop body (a recovered
\* panic): its deferred wg.Done() runs and it takes no further item
PoolPanic(p, item) == [p EXCEPT !.inflight = @ \ {item}]

\* Faulty variant of PoolCanExit: the workers return as soon as the channel
\* is closed, whatever it still holds.
PoolCanExitUndrained(p) == p.closed /\ p.idle > 0

\* range over a closed and drained channel ends: the idle workers return
\* (defer wg.Done())
PoolCanExit(p) == p.closed /\ p.taken = p.sent /\ p.idle > 0
PoolExit(p) == [p EXCEPT !.idle = 0]

\* wg.Wait() returns: the producer is past close() and every worker has
\* run its wg.Done()
PoolAllDone(p) == p.closed /\ p.idle = 0 /\ p.inflight = {}

(***************************************************************************)
(* State                                                                   *)
(***************************************************************************)
VARIABLES
    pc,               \* position of the server's calling goroutine
    private_set_X,    \* argument of ServerInitialize
    leParams,         \* ServerInitialize: leParams (<<>> = not set)
    db,               \* the witness store: handle, tables, committed leaves
    faults,           \* store faults injected so far
    publicKeys,       \* ServerInitialize: publicKeys
    privateKeys,      \* ServerInitialize: privateKeys
    hashedClient,     \* ServerInitialize: hashedClient (tree indices)
    pool,             \* the worker pool of the running parallel phase
    updI,             \* ServerInitialize: index of the Upd loop
    pp,               \* ServerInitialize: pp (<<>> = not read)
    msg,              \* ServerInitialize: msg (<<>> = not sampled)
    memoryTree,       \* ServerInitialize: memoryTree
    witnessesVec,     \* ServerInitialize: witnessesVec1 / witnessesVec2
    initWarned,       \* "warning: InitializeTreeDB returned" was logged
    initResult,       \* what ServerInitialize returned
    ctx,              \* the *ServerInitContext held by the caller (<<>> = nil)
    wire,             \* SerializableParams in flight to the client
    clientParams,     \* (pp, msg, le) held by the client
    clientHashes,     \* the list the client passed to ClientEncrypt
    clientCiphertexts,\* the batch produced by ClientEncrypt
    Z,                \* DetectIntersectionWithContext: Z
    intersectionMap,  \* DetectIntersectionWithContext: intersectionMap
    processedCount,   \* DetectIntersectionWithContext: processedCount
    doneChan,         \* DetectIntersectionWithContext: doneChan and its reader
    call,             \* a call of one of the package's functions: its name and arguments
    ret,              \* what the call has produced so far; <<>> before it ran
    detResult,        \* what DetectIntersectionWithContext returned
    panicLog,         \* "CRITICAL: Worker panic" lines logged by the running call
    progressLog,      \* the last "... Progress" line of the running call (<<>> = none)
    cancelled         \* the caller of the running call has given up on it

initVars == <<private_set_X, leParams, db, faults, publicKeys, privateKeys,
              hashedClient, updI, pp, msg, memoryTree, witnessesVec,
              initWarned, initResult>>
clientVars == <<wire, clientParams, clientHashes, clientCiphertexts>>
detectLogVars == <<panicLog, progressLog, cancelled>>
detectVars == <<Z, intersectionMap, processedCount, doneChan, detResult, detectLogVars>>
calcVars == <<call, ret>>
mainVars == <<pc, pool, ctx, initVars, clientVars, detectVars>>
vars == <<mainVars, calcVars>>

ClosedDB == [open |-> FALSE, tables |-> 0, leaves |-> <<>>]

\* The end-to-end scenarios S1 (trivial match) and S3 (empty intersection)
Scenarios ==
    {[X |-> <<100, 200, 300, 400, 500>>, Y |-> <<200, 400, 700>>],
     [X |-> <<1, 3, 5, 7, 9>>, Y |-> <<2, 4, 6, 8, 10>>]}

\* Input lists of the model: every list over FP up to the bounds, and the
\* scenarios.
ServerInputs == UNION {[1..n -> FP] : n \in 0..MaxX} \cup {s.X : s \in Scenarios}
ClientInputs == UNION {[1..n -> FP] : n \in 0..MaxY} \cup {s.Y : s \in Scenarios}

\* no call of a helper is under way
NoCall == [op |-> "none"]

\* the state before ServerInitialize is called
MainInit ==
    /\ pc = "idle"
    /\ private_set_X = <<>>
    /\ leParams = <<>>
    /\ db = ClosedDB
    /\ faults = 0
    /\ publicKeys = <<>>
    /\ privateKeys = <<>>
    /\ hashedClient = <<>>
    /\ pool = NoPool
    /\ updI = 0
    /\ pp = <<>>
    /\ msg = <<>>
    /\ memoryTree = <<>>
    /\ witnessesVec = <<>>
    /\ initWarned = FALSE
    /\ initResult = "none"
    /\ ctx = <<>>
    /\ wire = <<>>
    /\ clientParams = <<>>
    /\ clientHashes = <<>>
    /\ clientCiphertexts = <<>>
    /\ Z = <<>>
    /\ intersectionMap = {}
    /\ processedCount = 0
    /\ doneChan = "none"
    /\ detResult = [returned |-> FALSE, Z |-> <<>>, err |-> "nil"]
    /\ panicLog = 0
    /\ progressLog = <<>>
    /\ cancelled = FALSE

Init ==
    /\ MainInit
    /\ call = NoCall
    /\ ret = <<>>

X_size == Len(private_set_X)

(***************************************************************************)
(* ServerInitialize                                                        *)
(***************************************************************************)
\* Every return of ServerInitialize: the locals die, defer db.Close() runs.
InitReturn(result) ==
    /\ initResult' = result
    /\ db' = [db EXCEPT !.open = FALSE]
    /\ pc' = IF result = "ctx" THEN "ready" ELSE "initFailed"

\* Faulty variant of SI_Call: the X_size == 0 test is missing.
SI_CallNoEmptyCheck(Xin) ==
    /\ pc = "idle"
    /\ private_set_X' = Xin
    /\ leParams' = <<SetupLEParameters(Len(Xin))>>
    /\ pc' = "sqlOpen"
    /\ UNCHANGED <<initResult, db, faults, publicKeys, privateKeys, hashedClient,
                   updI, pp, msg, memoryTree, witnessesVec, initWarned, pool,
                   ctx, clientVars, detectVars>>
    /\ UNCHANGED calcVars

\* ServerInitialize is called; X_size == 0 returns at once, otherwise
\* SetupLEParameters(len(private_set_X)).
SI_Call(Xin) ==
    /\ pc = "idle"
    /\ private_set_X' = Xin
    /\ IF Len(Xin) = 0
       THEN /\ initResult' = "server set is empty"
            /\ pc' = "initFailed"
            /\ UNCHANGED leParams
       ELSE /\ leParams' = <<SetupLEParameters(Len(Xin))>>
            /\ pc' = "sqlOpen"
            /\ UNCHANGED initResult
    /\ UNCHANGED <<db, faults, publicKeys, privateKeys, hashedClient, updI, pp,
                   msg, memoryTree, witnessesVec, initWarned, pool, ctx,
                   clientVars, detectVars>>
    /\ UNCHANGED calcVars

\* db, err := sql.Open("sqlite3", Treepath); if err != nil { return nil, err }
SI_Open ==
    /\ pc = "sqlOpen"
    /\ \/ /\ db' = [db EXCEPT !.open = TRUE]
          /\ pc' = "initTreeDB"
          /\ UNCHANGED <<faults, initResult>>
       \/ /\ faults < MaxFaults
          /\ faults' = faults + 1
          /\ initResult' = "open tree db"
          /\ pc' = "initFailed"
          /\ UNCHANGED db
    /\ UNCHANGED <<private_set_X, leParams, publicKeys, privateKeys, hashedClient,
                   updI, pp, msg, memoryTree, witnessesVec, initWarned, pool, ctx,
                   clientVars, detectVars>>
    /\ UNCHANGED calcVars

\* InitializeTreeDB: CREATE TABLE tree_0 .. tree_layers, stopping at the first
\* statement that fails; `created` tables exist afterwards.
InitializeTreeDB(layers, created) ==
    [tables |-> created, err |-> created < layers + 1]

\* if err := storage.InitializeTreeDB(...); err != nil { log.Printf(warning) }
\* and then, whatever the outcome: the key arrays, numWorkers, workChan and
\* the key generation workers.
SI_InitTreeDB ==
    /\ pc = "initTreeDB"
    /\ \E created \in 0..(leParams[1].Layers + 1) :
         LET r == InitializeTreeDB(leParams[1].Layers, created) IN
         /\ r.err => faults < MaxFaults
         /\ faults' = IF r.err THEN faults + 1 ELSE faults
         /\ db' = [db EXCEPT !.tables = r.tables]
         /\ initWarned' = r.err
    /\ publicKeys' = [i \in 1..X_size |-> 0]
    /\ privateKeys' = [i \in 1..X_size |-> 0]
    /\ hashedClient' = [i \in 1..X_size |-> 0]
    /\ pool' = PoolNew(X_size, Min2(CalculateOptimalWorkers(X_size), X_size))
    /\ pc' = "keyGen"
    /\ UNCHANGED <<private_set_X, leParams, updI, pp, msg, memoryTree,
                   witnessesVec, initResult, ctx, clientVars, detectVars>>
    /\ UNCHANGED calcVars

\* for i := 0; i < X_size; i++ { workChan <- i }
KeyGen_Send ==
    /\ pc = "keyGen"
    /\ PoolCanSend(pool)
    /\ pool' = PoolSend(pool)
    /\ UNCHANGED <<pc, ctx, initVars, clientVars, detectVars>>
    /\ UNCHANGED calcVars

\* close(workChan)
KeyGen_Close ==
    /\ pc = "keyGen"
    /\ pool.sent = pool.cap
    /\ ~pool.closed
    /\ pool' = PoolClose(pool)
    /\ UNCHANGED <<pc, ctx, initVars, clientVars, detectVars>>
    /\ UNCHANGED calcVars

\* a key generation worker receives i from workChan
KeyGen_Take ==
    /\ pc = "keyGen"
    /\ PoolCanTake(pool)
    /\ pool' = PoolTake(pool)
    /\ UNCHANGED <<pc, ctx, initVars, clientVars, detectVars>>
    /\ UNCHANGED calcVars

\* leParams.KeyGen(): a fresh key pair; the pair generated for element i is
\* identified by i.
KeyGen(i) == [pk |-> i, sk |-> i]

\* publicKeys[i], privateKeys[i] = leParams.KeyGen()
\* hashedClient[i] = ReduceToTreeIndex(private_set_X[i], leParams.Layers)
KeyGen_Finish(i) ==
    /\ pc = "keyGen"
    /\ i \in pool.inflight
    /\ publicKeys' = [publicKeys EXCEPT ![i] = KeyGen(i).pk]
    /\ privateKeys' = [privateKeys EXCEPT ![i] = KeyGen(i).sk]
    /\ hashedClient' = [hashedClient EXCEPT
                          ![i] = ReduceToTreeIndex(private_set_X[i], leParams[1].Layers)]
    /\ pool' = PoolFinish(pool, i)
    /\ UNCHANGED <<pc, private_set_X, leParams, db, faults, updI, pp, msg,
                   memoryTree, witnessesVec, initWarned, initResult, ctx,
                   clientVars, detectVars>>
    /\ UNCHANGED calcVars

\* A panic raised inside a worker goroutine of ServerInitialize (lines
\* 274-280 and 315-320 have defer wg.Done() and no recover): the runtime
\* ends the process.
WorkerCrash ==
    /\ faults < MaxFaults
    /\ faults' = faults + 1
    /\ initResult' = "worker panic"
    /\ db' = [db EXCEPT !.open = FALSE]
    /\ pc' = "crashed"

\* leParams.KeyGen() panics in the worker that holds item i
KeyGen_Panic(i) ==
    /\ pc = "keyGen"
    /\ i \in pool.inflight
    /\ WorkerCrash
    /\ UNCHANGED <<private_set_X, leParams, publicKeys, privateKeys, hashedClient,
                   updI, pp, msg, memoryTree, witnessesVec, initWarned, pool, ctx,
                   clientVars, detectVars>>
    /\ UNCHANGED calcVars

\* the workers leave their range loop
KeyGen_Exit ==
    /\ pc = "keyGen"
    /\ PoolCanExit(pool)
    /\ pool' = PoolExit(pool)
    /\ UNCHANGED <<pc, ctx, initVars, clientVars, detectVars>>
    /\ UNCHANGED calcVars

\* Faulty variant of KeyGen_Wait: wg.Wait() is missing, the Upd loop starts
\* as soon as the producer has closed the channel.
KeyGen_WaitNoBarrier ==
    /\ pc = "keyGen"
    /\ pool.closed
    /\ pc' = "upd"
    /\ updI' = 1
    /\ pool' = NoPool
    /\ UNCHANGED <<private_set_X, leParams, db, faults, publicKeys, privateKeys,
                   hashedClient, pp, msg, memoryTree, witnessesVec, initWarned,
                   initResult, ctx, clientVars, detectVars>>
    /\ UNCHANGED calcVars

\* wg.Wait() returns
KeyGen_Wait ==
    /\ pc = "keyGen"
    /\ PoolAllDone(pool)
    /\ pc' = "upd"
    /\ updI' = 1
    /\ pool' = NoPool
    /\ UNCHANGED <<private_set_X, leParams, db, faults, publicKeys, privateKeys,
                   hashedClient, pp, msg, memoryTree, witnessesVec, initWarned,
                   initResult, ctx, clientVars, detectVars>>
    /\ UNCHANGED calcVars

\* LE.Upd(db, row, layers, pk, le): writes the key at the leaf (layers, row)
\* and recomputes its ancestors up to the digest.  The write needs every
\* tree table.
StoreComplete(store, layers) == store.tables = layers + 1

Upd(store, row, pk) == [store EXCEPT !.leaves = (row :> pk) @@ @]

\* for i := 0; i < X_size; i++ { LE.Upd(db, hashedClient[i], ..., publicKeys[i], ...) }
\* The call is a statement: Upd hands no error back to ServerInitialize, and
\* ServerInitialize has no recover.  A store error during insertion is fatal
\* for the operation: it takes the calling goroutine down.
SI_Upd ==
    /\ pc = "upd"
    /\ updI <= X_size
    /\ \/ /\ StoreComplete(db, leParams[1].Layers)
          /\ db' = Upd(db, hashedClient[updI], publicKeys[updI])
          /\ updI' = updI + 1
          /\ UNCHANGED <<faults, initResult, pc>>
       \/ /\ \/ ~StoreComplete(db, leParams[1].Layers) /\ UNCHANGED faults
             \/ /\ StoreComplete(db, leParams[1].Layers)
                /\ faults < MaxFaults
                /\ faults' = faults + 1
          /\ initResult' = "panic"
          /\ db' = [db EXCEPT !.open = FALSE]
          /\ pc' = "initFailed"
          /\ UNCHANGED updI
    /\ UNCHANGED <<private_set_X, leParams, publicKeys, privateKeys, hashedClient,
                   pp, msg, memoryTree, witnessesVec, initWarned, pool, ctx,
                   clientVars, detectVars>>
    /\ UNCHANGED calcVars

\* pp := LE.ReadFromDB(db, 0, 0, leParams).NTT(leParams.R)
\* msg := matrix.NewRandomPolyBinary(leParams.R)
SI_ReadPP ==
    /\ pc = "upd"
    /\ updI = X_size + 1
    /\ pp' = <<ReadDigest(db.leaves)>>
    /\ \E m \in Messages : msg' = <<m>>
    /\ pc' = "loadTree"
    /\ UNCHANGED <<private_set_X, leParams, db, faults, publicKeys, privateKeys,
                   hashedClient, updI, memoryTree, witnessesVec, initWarned,
                   initResult, pool, ctx, clientVars, detectVars>>
    /\ UNCHANGED calcVars

\* LE.LoadTreeFromDB(db, layers, le): reads every layer table into RAM.
LoadTreeFromDB(store, layers, readFails) ==
    [tree |-> store.leaves, err |-> readFails \/ ~StoreComplete(store, layers)]

NoWitness == [idx |-> -1, leaf |-> 0]

\* memoryTree, err := LE.LoadTreeFromDB(...); if err != nil { return nil, err }
\* then the witness arrays, witnessChan and the witness workers.
SI_LoadTree ==
    /\ pc = "loadTree"
    /\ \E readFails \in BOOLEAN :
         LET r == LoadTreeFromDB(db, leParams[1].Layers, readFails) IN
         /\ readFails => faults < MaxFaults
         /\ faults' = IF readFails THEN faults + 1 ELSE faults
         /\ IF r.err
            THEN /\ InitReturn("failed to load tree into memory")
                 /\ UNCHANGED <<memoryTree, witnessesVec, pool>>
            ELSE /\ memoryTree' = r.tree
                 /\ witnessesVec' = [i \in 1..X_size |-> NoWitness]
                 /\ pool' = PoolNew(X_size, CalculateOptimalWorkers(X_size))
                 /\ pc' = "witGen"
                 /\ UNCHANGED <<db, initResult>>
    /\ UNCHANGED <<private_set_X, leParams, publicKeys, privateKeys, hashedClient,
                   updI, pp, msg, initWarned, ctx, clientVars, detectVars>>
    /\ UNCHANGED calcVars

\* for i := 0; i < X_size; i++ { witnessChan <- i }
WitGen_Send ==
    /\ pc = "witGen"
    /\ PoolCanSend(pool)
    /\ pool' = PoolSend(pool)
    /\ UNCHANGED <<pc, ctx, initVars, clientVars, detectVars>>
    /\ UNCHANGED calcVars

\* close(witnessChan)
WitGen_Close ==
    /\ pc = "witGen"
    /\ pool.sent = pool.cap
    /\ ~pool.closed
    /\ pool' = PoolClose(pool)
    /\ UNCHANGED <<pc, ctx, initVars, clientVars, detectVars>>
    /\ UNCHANGED calcVars

\* a witness worker receives i from witnessChan
WitGen_Take ==
    /\ pc = "witGen"
    /\ PoolCanTake(pool)
    /\ pool' = PoolTake(pool)
    /\ UNCHANGED <<pc, ctx, initVars, clientVars, detectVars>>
    /\ UNCHANGED calcVars

\* LE.WitGenMemory(memoryTree, le, row): the sibling path of the leaf `row`
\* in the RAM image; it authenticates what the image holds at that leaf.
WitGenMemory(tree, row) ==
    [idx |-> row, leaf |-> IF row \in DOMAIN tree THEN tree[row] ELSE 0]

\* witnessesVec1[i], witnessesVec2[i] = LE.WitGenMemory(memoryTree, leParams, hashedClient[i])
WitGen_Finish(i) ==
    /\ pc = "witGen"
    /\ i \in pool.inflight
    /\ witnessesVec' = [witnessesVec EXCEPT ![i] = WitGenMemory(memoryTree, hashedClient[i])]
    /\ pool' = PoolFinish(pool, i)
    /\ UNCHANGED <<pc, private_set_X, leParams, db, faults, publicKeys, privateKeys,
                   hashedClient, updI, pp, msg, memoryTree, initWarned, initResult,
                   ctx, clientVars, detectVars>>
    /\ UNCHANGED calcVars

\* LE.WitGenMemory panics in the worker that holds item i
WitGen_Panic(i) ==
    /\ pc = "witGen"
    /\ i \in pool.inflight
    /\ WorkerCrash
    /\ UNCHANGED <<private_set_X, leParams, publicKeys, privateKeys, hashedClient,
                   updI, pp, msg, memoryTree, witnessesVec, initWarned, pool, ctx,
                   clientVars, detectVars>>
    /\ UNCHANGED calcVars

\* the witness workers leave their range loop
WitGen_Exit ==
    /\ pc = "witGen"
    /\ PoolCanExit(pool)
    /\ pool' = PoolExit(pool)
    /\ UNCHANGED <<pc, ctx, initVars, clientVars, detectVars>>
    /\ UNCHANGED calcVars

\* The zero value &ServerInitContext{}
ZeroCtx ==
    [PublicParams |-> <<>>, Message |-> <<>>, LEParams |-> <<>>, PrivateKeys |-> <<>>,
     WitnessVectors |-> <<>>, TreeIndices |-> <<>>, OriginalHashes |-> <<>>]

\* witnessWg.Wait() returns; ctx := &ServerInitContext{...}; return ctx, nil
SI_Return ==
    /\ pc = "witGen"
    /\ PoolAllDone(pool)
    /\ ctx' = <<[PublicParams |-> pp[1], Message |-> msg[1], LEParams |-> leParams[1],
                 PrivateKeys |-> privateKeys, WitnessVectors |-> witnessesVec,
                 TreeIndices |-> hashedClient, OriginalHashes |-> private_set_X]>>
    /\ InitReturn("ctx")
    /\ pool' = NoPool
    /\ UNCHANGED <<private_set_X, leParams, faults, publicKeys, privateKeys,
                   hashedClient, updI, pp, msg, memoryTree, witnessesVec,
                   initWarned, clientVars, detectVars>>
    /\ UNCHANGED calcVars

(***************************************************************************)
(* Publication of the parameters and client encryption                     *)
(***************************************************************************)
\* GetPublicParameters: ctx.PublicParams, ctx.Message, ctx.LEParams
GetPublicParameters(c) == [pp |-> c.PublicParams, msg |-> c.Message, le |-> c.LEParams]

\* serializeMatrix: nil for a nil matrix, else result[i][j] = poly.Coeffs[0]
SerializeMatrix(mat) ==
    IF mat = <<>> THEN <<>>
    ELSE [i \in 1..Len(mat) |-> [j \in 1..Len(mat[i]) |-> mat[i][j]]]

\* SerializeParameters: the fields the wire structure carries
SerializeParameters(ppv, m, le) ==
    [PP |-> [i \in 1..Len(ppv) |-> ppv[i]],
     Msg |-> m,
     Q |-> le.Q, D |-> le.D, N |-> le.N, Layers |-> le.Layers,
     M |-> le.M, M2 |-> le.M2,
     A0NTT |-> SerializeMatrix(le.A0NTT), A1NTT |-> SerializeMatrix(le.A1NTT),
     BNTT |-> SerializeMatrix(le.BNTT), GNTT |-> SerializeMatrix(le.GNTT)]

\* deserializeMatrix: nil for an empty array; else an n x m matrix of zero
\* polynomials, m = len(serialized[0]), filled by copy() where data exists
DeserializeMatrix(serialized) ==
    IF Len(serialized) = 0 THEN <<>>
    ELSE LET n == Len(serialized)
             m == Len(serialized[1])
         IN  [i \in 1..n |-> [j \in 1..m |->
                 IF j <= Len(serialized[i]) /\ Len(serialized[i][j]) > 0
                 THEN CopyPoly(serialized[i][j])
                 ELSE ZeroPoly]]

\* DeserializeParameters: the LE structure is built from the wire fields; the
\* fields the wire structure does not carry keep Go's zero value.
DeserializeParameters(params) ==
    [pp |-> [i \in 1..Len(params.PP) |-> CopyPoly(params.PP[i])],
     msg |-> CopyPoly(params.Msg),
     le |-> [Q |-> params.Q, D |-> params.D, N |-> params.N,
             Layers |-> params.Layers, M |-> params.M, M2 |-> params.M2,
             Sigma |-> 0, Bound |-> 0,
             A0NTT |-> DeserializeMatrix(params.A0NTT),
             A1NTT |-> DeserializeMatrix(params.A1NTT),
             BNTT |-> DeserializeMatrix(params.BNTT),
             GNTT |-> DeserializeMatrix(params.GNTT)]]

\* r, err := ring.NewRing(params.D, []uint64{params.Q}): the only error of
\* DeserializeParameters.  The model's ring is scaled down, so of NewRing's
\* tests only the one for a non-positive degree is kept.
NewRingFails(d) == d < 1

\* what DeserializeParameters returns: (nil, nil, nil, err) or (pp, msg, le, nil)
DeserializeResult(params) ==
    IF NewRingFails(params.D)
    THEN [err |-> "failed to create ring", value |-> <<>>]
    ELSE [err |-> "nil", value |-> <<DeserializeParameters(params)>>]

\* In-process use (func Server): the client is handed the context's values.
Client_GetParams ==
    /\ pc = "ready"
    /\ wire = <<>> /\ clientParams = <<>> /\ clientCiphertexts = <<>>
    /\ clientParams' = <<GetPublicParameters(ctx[1])>>
    /\ UNCHANGED <<pc, pool, ctx, initVars, wire, clientHashes, clientCiphertexts, detectVars>>
    /\ UNCHANGED calcVars

\* handleGetParams: pp, msg, le := GetPublicParameters(ctx); SerializeParameters
Server_Serialize ==
    /\ pc = "ready"
    /\ wire = <<>> /\ clientParams = <<>> /\ clientCiphertexts = <<>>
    /\ wire' = <<SerializeParameters(ctx[1].PublicParams, ctx[1].Message, ctx[1].LEParams)>>
    /\ UNCHANGED <<pc, pool, ctx, initVars, clientParams, clientHashes, clientCiphertexts, detectVars>>
    /\ UNCHANGED calcVars

\* the client: pp, msg, le, err := psi.DeserializeParameters(received)
Client_Deserialize ==
    /\ wire # <<>>
    /\ clientParams = <<>> /\ clientCiphertexts = <<>>
    /\ clientParams' = <<DeserializeParameters(wire[1])>>
    /\ UNCHANGED <<pc, pool, ctx, initVars, wire, clientHashes, clientCiphertexts, detectVars>>
    /\ UNCHANGED calcVars

\* LE.Enc(le, pp, index, msg, r, e0, e1, e): a ciphertext addressed to the
\* leaf `index`, carrying msg * floor(Q/2).
Enc(le, index, m) == [idx |-> index, d |-> [c \in Coeffs |-> m[c] * (le.Q \div 2)]]

\* Faulty variant of Client: the ciphertext is addressed to the raw
\* fingerprint instead of its tree index.
ClientNoReduce(private_set_Y, p) ==
    [i \in 1..Len(private_set_Y) |-> Enc(p.le, private_set_Y[i], p.msg)]

\* Client: treeIndices[i] = ReduceToTreeIndex(private_set_Y[i], le.Layers) and
\* one ciphertext per element (the encryption workers write disjoint slots).
Client(private_set_Y, p) ==
    [i \in 1..Len(private_set_Y) |->
        Enc(p.le, ReduceToTreeIndex(private_set_Y[i], p.le.Layers), p.msg)]

\* ciphertexts := psi.ClientEncrypt(hashes, pp, msg, le)
Client_Encrypt(Yin) ==
    /\ pc = "ready"
    /\ clientParams # <<>> /\ clientCiphertexts = <<>>
    /\ \/ Len(Yin) * Len(ctx[1].OriginalHashes) <= MaxWork
       \/ [X |-> ctx[1].OriginalHashes, Y |-> Yin] \in Scenarios
    /\ clientHashes' = Yin
    /\ clientCiphertexts' = <<Client(Yin, clientParams[1])>>
    /\ UNCHANGED <<pc, pool, ctx, initVars, wire, clientParams, detectVars>>
    /\ UNCHANGED calcVars

\* The zero value Cxtx{}: C0, C1, C and D are nil
NilCxtx == [idx |-> -1, d |-> <<>>]

\* a ciphertext with a nil field
Malformed(ct) == ct.d = <<>>

\* at most this many ciphertexts of a request lack their fields, and such
\* requests are explored up to this many work items
MaxMalformed == 1
MaxPanicWork == 2

\* The events around a Detect call (a caller that gives up, a progress tick,
\* a second call) are explored in the calls of at most this many work items.
MaxEventWork == 1

\* json.NewDecoder(r.Body).Decode(&request): a request whose j-th ciphertext
\* lacks its fields decodes without error, to the zero value at position j;
\* request.Ciphertexts goes to DetectIntersectionWithContext as it is.
handleIntersection_Decode(j) ==
    /\ pc = "ready"
    /\ clientCiphertexts # <<>>
    /\ j \in 1..Len(clientCiphertexts[1])
    /\ Len(clientCiphertexts[1]) * Len(ctx[1].OriginalHashes) <= MaxPanicWork
    /\ Cardinality({i \in 1..Len(clientCiphertexts[1]) :
                        Malformed(clientCiphertexts[1][i])}) < MaxMalformed
    /\ ~Malformed(clientCiphertexts[1][j])
    /\ clientCiphertexts' = <<[clientCiphertexts[1] EXCEPT ![j] = NilCxtx]>>
    /\ UNCHANGED <<pc, pool, ctx, initVars, wire, clientParams, clientHashes, detectVars>>
    /\ UNCHANGED calcVars

(***************************************************************************)
(* DetectIntersectionWithContext                                           *)
(***************************************************************************)
\* LE.Dec(le, sk, W1, W2, c0, c1, c, d): peels the layers with the witness of
\* the server element and removes sk * c.  The message comes out only when
\* the ciphertext is addressed to the witness's leaf and that leaf holds the
\* public key of sk; anything else gives a polynomial unrelated to it.
Dec(le, sk, W, ct) ==
    IF W.idx = ct.idx /\ W.leaf = sk /\ sk # 0
    THEN ct.d
    ELSE [c \in Coeffs |-> (ct.d[c] + (le.Q \div 2)) % le.Q]

\* Faulty variant of the rounding: the two halves of the ring are swapped.
RoundedInverted(v, q) == IF v < (q \div 4) \/ v > (q \div 4) * 3 THEN 1 ELSE 0

\* CorrectnessCheck: q14 = Q/4, q34 = (Q/4)*3; a coefficient below q14 or
\* above q34 rounds to 0, the others to 1; at least 95 % must agree.
Rounded(v, q) == IF v < (q \div 4) \/ v > (q \div 4) * 3 THEN 0 ELSE 1

\* binaryDecrypted after the first loop
BinaryDecrypted(decrypted, le) == [c \in Coeffs |-> Rounded(decrypted[c], le.Q)]

\* matchCount after the second loop
MatchCount(decrypted, original, le) ==
    Cardinality({c \in Coeffs : BinaryDecrypted(decrypted, le)[c] = original[c]})

\* Faulty variant of MatchRateOK: the threshold is 0.90.
MatchRateLoose(matchCount, n) == matchCount * 100 >= 90 * n

\* float64(matchCount)/float64(le.R.N) >= 0.95
MatchRateOK(matchCount, n) == matchCount * 100 >= 95 * n

\* Faulty variant of CorrectnessCheck: no threshold on the match rate.
CorrectnessCheckNoThreshold(decrypted, original, le) ==
    LET matchCount == Cardinality({c \in Coeffs : Rounded(decrypted[c], le.Q) = original[c]})
    IN  matchCount * 100 >= 0

CorrectnessCheck(decrypted, original, le) ==
    MatchRateOK(MatchCount(decrypted, original, le), D)

\* var VerboseMode = os.Getenv("PSI_VERBOSE") == "false"
VerboseMode(PSI_VERBOSE) == PSI_VERBOSE = "false"

\* if VerboseMode { fmt.Printf("Match rate: ...") }: the lines one call prints
MatchRateLog(PSI_VERBOSE, matchCount) ==
    IF VerboseMode(PSI_VERBOSE) THEN <<[line |-> "Match rate", matchCount |-> matchCount]>>
    ELSE <<>>

\* workItem{j, k}: the n-th item the producer sends (j outer, k inner loop)
ItemJ(n, xs) == ((n - 1) \div xs) + 1
ItemK(n, xs) == ((n - 1) % xs) + 1

CtxSize == Len(ctx[1].OriginalHashes)
Batch == clientCiphertexts[1]

\* numWorkers := CalculateOptimalWorkers(X_size); if numWorkers < 1 { numWorkers = 1 }
DetectWorkers(xs) ==
    LET w == CalculateOptimalWorkers(xs) IN IF w < 1 THEN 1 ELSE w

\* Entry of DetectIntersectionWithContext up to the start of the workers.
\* len(ctx.OriginalHashes) on a nil context is a nil dereference.
DetectEnter ==
    IF ctx' = <<>>
    THEN /\ detResult' = [returned |-> FALSE, Z |-> <<>>, err |-> "panic"]
         /\ pc' = "detectPanicked"
         /\ UNCHANGED <<pool, Z, intersectionMap, processedCount, doneChan, detectLogVars>>
    ELSE /\ Z' = <<>>
         /\ intersectionMap' = {}
         /\ processedCount' = 0
         /\ doneChan' = "open"
         /\ panicLog' = 0
         /\ progressLog' = <<>>
         /\ cancelled' = FALSE
         /\ pool' = PoolNew(Len(clientCiphertexts'[1]) * Len(ctx'[1].OriginalHashes),
                            DetectWorkers(Len(ctx'[1].OriginalHashes)))
         /\ pc' = "detect"
         /\ UNCHANGED detResult

\* The server calls Detect on its context with the batch the client shipped:
\* for the first time, or once more on the same context and the same batch
\* after the call before has returned and its progress goroutine has ended.
Detect_Call ==
    /\ \/ pc = "ready"
       \/ /\ pc = "detectReturned"
          /\ initResult = "ctx"
          /\ doneChan = "drained"
          /\ pool.cap <= MaxEventWork
    /\ clientCiphertexts # <<>>
    /\ wire' = <<>>
    /\ clientParams' = <<>>
    /\ UNCHANGED <<ctx, clientHashes, clientCiphertexts, initVars>>
    /\ DetectEnter
    /\ UNCHANGED calcVars

\* Detect is called before any ServerInitialize: on a nil context or on a
\* context that was never initialised.
Detect_BeforeInit(c, batch) ==
    /\ pc = "idle"
    /\ ctx' = c
    /\ clientCiphertexts' = <<batch>>
    /\ UNCHANGED <<initVars, wire, clientParams, clientHashes>>
    /\ DetectEnter
    /\ UNCHANGED calcVars

\* for j := range clientCiphertexts { for k ... { workItems <- workItem{j, k} } }
Detect_Send ==
    /\ pc = "detect"
    /\ PoolCanSend(pool)
    /\ pool' = PoolSend(pool)
    /\ UNCHANGED <<pc, ctx, initVars, clientVars, detectVars>>
    /\ UNCHANGED calcVars

\* Faulty variant of Detect_Close: the channel is closed from inside the
\* producer loop, after the last send.
Detect_CloseAfterSend ==
    /\ pc = "detect"
    /\ pool.sent = pool.cap
    /\ pool.sent > 0
    /\ ~pool.closed
    /\ pool' = PoolClose(pool)
    /\ UNCHANGED <<pc, ctx, initVars, clientVars, detectVars>>
    /\ UNCHANGED calcVars

\* close(workItems)
Detect_Close ==
    /\ pc = "detect"
    /\ pool.sent = pool.cap
    /\ ~pool.closed
    /\ pool' = PoolClose(pool)
    /\ UNCHANGED <<pc, ctx, initVars, clientVars, detectVars>>
    /\ UNCHANGED calcVars

\* a detection worker receives the next item.  Runs of more than MaxWork
\* items (the scenarios) are explored with one item in flight at a time.
Detect_Take ==
    /\ pc = "detect"
    /\ PoolCanTake(pool)
    /\ pool.cap > MaxWork => pool.inflight = {}
    /\ pool' = PoolTake(pool)
    /\ UNCHANGED <<pc, ctx, initVars, clientVars, detectVars>>
    /\ UNCHANGED calcVars

\* msg2 := LE.Dec(...); CorrectnessCheck(msg2, ctx.Message, ctx.LEParams)
\* (LE.Dec dereferences the fields of the ciphertext: on a malformed one the
\* worker panics before the check)
ItemMatches(c, batch, n) ==
    LET j == ItemJ(n, Len(c.OriginalHashes))
        k == ItemK(n, Len(c.OriginalHashes))
    IN  /\ ~Malformed(batch[j])
        /\ CorrectnessCheck(Dec(c.LEParams, c.PrivateKeys[k], c.WitnessVectors[k], batch[j]),
                            c.Message, c.LEParams)

\* the item's ciphertext makes LE.Dec panic
ItemPanics(n) == Malformed(Batch[ItemJ(n, CtxSize)])

\* Faulty variant of Detect_Finish: the result of the decryption is not
\* checked against the context's message.
Detect_FinishNoCheck(n) ==
    /\ pc = "detect"
    /\ n \in pool.inflight
    /\ ~ItemPanics(n)
    /\ LET k == ItemK(n, CtxSize) IN
       IF k \notin intersectionMap
       THEN /\ Z' = Append(Z, ctx[1].OriginalHashes[k])
            /\ intersectionMap' = intersectionMap \cup {k}
       ELSE UNCHANGED <<Z, intersectionMap>>
    /\ processedCount' = processedCount + 1
    /\ pool' = PoolFinish(pool, n)
    /\ UNCHANGED <<pc, ctx, initVars, clientVars, doneChan, detResult, detectLogVars>>
    /\ UNCHANGED calcVars

\* Faulty variant of Detect_Finish: the private key of a matched element is
\* wiped from the context once it was used.
Detect_FinishConsumesKey(n) ==
    /\ pc = "detect"
    /\ n \in pool.inflight
    /\ ~ItemPanics(n)
    /\ LET k == ItemK(n, CtxSize) IN
       IF ItemMatches(ctx[1], Batch, n) /\ k \notin intersectionMap
       THEN /\ Z' = Append(Z, ctx[1].OriginalHashes[k])
            /\ intersectionMap' = intersectionMap \cup {k}
            /\ ctx' = <<[ctx[1] EXCEPT !.PrivateKeys[k] = 0]>>
       ELSE UNCHANGED <<Z, intersectionMap, ctx>>
    /\ processedCount' = processedCount + 1
    /\ pool' = PoolFinish(pool, n)
    /\ UNCHANGED <<pc, initVars, clientVars, doneChan, detResult, detectLogVars>>
    /\ UNCHANGED calcVars

\* Faulty variant of Detect_Finish: the intersectionMap test is missing.
Detect_FinishNoDedup(n) ==
    /\ pc = "detect"
    /\ n \in pool.inflight
    /\ ~ItemPanics(n)
    /\ LET k == ItemK(n, CtxSize) IN
       IF ItemMatches(ctx[1], Batch, n)
       THEN /\ Z' = Append(Z, ctx[1].OriginalHashes[k])
            /\ intersectionMap' = intersectionMap \cup {k}
       ELSE UNCHANGED <<Z, intersectionMap>>
    /\ processedCount' = processedCount + 1
    /\ pool' = PoolFinish(pool, n)
    /\ UNCHANGED <<pc, ctx, initVars, clientVars, doneChan, detResult, detectLogVars>>
    /\ UNCHANGED calcVars

\* The loop body of a detection worker for the item it holds: decrypt, check,
\* and under resultMutex append ctx.OriginalHashes[k] unless intersectionMap[k];
\* then atomic.AddUint64(&processedCount, 1).
Detect_Finish(n) ==
    /\ pc = "detect"
    /\ n \in pool.inflight
    /\ ~ItemPanics(n)
    /\ LET k == ItemK(n, CtxSize) IN
       IF ItemMatches(ctx[1], Batch, n) /\ k \notin intersectionMap
       THEN /\ Z' = Append(Z, ctx[1].OriginalHashes[k])
            /\ intersectionMap' = intersectionMap \cup {k}
       ELSE UNCHANGED <<Z, intersectionMap>>
    /\ processedCount' = processedCount + 1
    /\ pool' = PoolFinish(pool, n)
    /\ UNCHANGED <<pc, ctx, initVars, clientVars, doneChan, detResult, detectLogVars>>
    /\ UNCHANGED calcVars

\* LE.Dec panics on the item's ciphertext: the deferred recover() logs
\* "CRITICAL: Worker panic", the deferred detectionWg.Done() runs, and the
\* goroutine is gone; processedCount is not incremented.
Detect_Panic(n) ==
    /\ pc = "detect"
    /\ n \in pool.inflight
    /\ ItemPanics(n)
    /\ panicLog' = panicLog + 1
    /\ pool' = PoolPanic(pool, n)
    /\ UNCHANGED <<pc, ctx, initVars, clientVars, Z, intersectionMap, processedCount,
                   doneChan, detResult, progressLog, cancelled>>
    /\ UNCHANGED calcVars

\* The caller gives up on the running call (the request is abandoned, its
\* time budget is over).  DetectIntersectionWithContext takes the context
\* and the ciphertexts and nothing else: no statement of it reads the signal.
Caller_Cancel ==
    /\ pc = "detect"
    /\ ~cancelled
    /\ pool.cap <= MaxEventWork
    /\ cancelled' = TRUE
    /\ UNCHANGED <<pc, pool, ctx, initVars, clientVars, Z, intersectionMap,
                   processedCount, doneChan, detResult, panicLog, progressLog>>
    /\ UNCHANGED calcVars

\* the detection workers leave their range loop
Detect_Exit ==
    /\ pc = "detect"
    /\ PoolCanExit(pool)
    /\ pool' = PoolExit(pool)
    /\ UNCHANGED <<pc, ctx, initVars, clientVars, detectVars>>
    /\ UNCHANGED calcVars

\* Faulty variant of Detect_Return: detectionWg.Wait() is missing, the
\* function returns as soon as the producer has closed the channel.
Detect_ReturnNoWait ==
    /\ pc = "detect"
    /\ pool.closed
    /\ doneChan' = "closed"
    /\ detResult' = [returned |-> TRUE, Z |-> Z, err |-> "nil"]
    /\ pc' = "detectReturned"
    /\ UNCHANGED <<pool, ctx, initVars, clientVars, Z, intersectionMap, processedCount,
                   detectLogVars>>
    /\ UNCHANGED calcVars

\* detectionWg.Wait() returns; close(doneChan); return Z, nil
Detect_Return ==
    /\ pc = "detect"
    /\ PoolAllDone(pool)
    /\ doneChan' = "closed"
    /\ detResult' = [returned |-> TRUE, Z |-> Z, err |-> "nil"]
    /\ pc' = "detectReturned"
    /\ UNCHANGED <<pool, ctx, initVars, clientVars, Z, intersectionMap, processedCount,
                   detectLogVars>>
    /\ UNCHANGED calcVars

\* float64(current) / float64(totalWork) * 100 as printed with %.1f, in
\* tenths of a percent; for totalWork = 0 the quotient 0/0 is NaN
Percent(current, totalWork) ==
    IF totalWork = 0 THEN "NaN" ELSE (current * 1000) \div totalWork

\* the progress goroutine: case <-ticker.C: load processedCount and log the
\* line.  The goroutine lives until it has taken the doneChan case.
Reporter_Tick ==
    /\ pc \in {"detect", "detectReturned"}
    /\ doneChan \in {"open", "closed"}
    /\ pool.cap <= MaxEventWork
    /\ progressLog' = <<[current |-> processedCount, totalWork |-> pool.cap,
                         percent |-> Percent(processedCount, pool.cap)]>>
    /\ UNCHANGED <<pc, pool, ctx, initVars, clientVars, Z, intersectionMap,
                   processedCount, doneChan, detResult, panicLog, cancelled>>
    /\ UNCHANGED calcVars

\* Faulty variant of Reporter_Exit: the select has no doneChan case.
Reporter_ExitNoDoneCase ==
    /\ doneChan = "closed"
    /\ FALSE
    /\ UNCHANGED vars

\* the progress goroutine: case <-doneChan: return
Reporter_Exit ==
    /\ doneChan = "closed"
    /\ doneChan' = "drained"
    /\ UNCHANGED <<pc, pool, ctx, initVars, clientVars, Z, intersectionMap,
                   processedCount, detResult, detectLogVars>>
    /\ UNCHANGED calcVars

(***************************************************************************)
(* Specification                                                           *)
(***************************************************************************)
\* A ciphertext a client of an earlier session could have produced
StrayBatches == {<<>>, <<[idx |-> 10, d |-> [c \in Coeffs |-> Q \div 2]]>>}

\* the largest item number any pool of the model hands out
MaxItems == 25 + MaxWork

\* One step of the deployment, with the caller's sets drawn from XS and YS.
NextOn(XS, YS) ==
    \/ \E Xin \in XS : SI_Call(Xin)
    \/ SI_Open
    \/ SI_InitTreeDB
    \/ KeyGen_Send
    \/ KeyGen_Close
    \/ KeyGen_Take
    \/ \E i \in 1..MaxItems : KeyGen_Finish(i)
    \/ \E i \in 1..MaxItems : KeyGen_Panic(i)
    \/ KeyGen_Exit
    \/ KeyGen_Wait
    \/ SI_Upd
    \/ SI_ReadPP
    \/ SI_LoadTree
    \/ WitGen_Send
    \/ WitGen_Close
    \/ WitGen_Take
    \/ \E i \in 1..MaxItems : WitGen_Finish(i)
    \/ \E i \in 1..MaxItems : WitGen_Panic(i)
    \/ WitGen_Exit
    \/ SI_Return
    \/ Client_GetParams
    \/ Server_Serialize
    \/ Client_Deserialize
    \/ \E Yin \in YS : Client_Encrypt(Yin)
    \/ \E j \in 1..MaxY : handleIntersection_Decode(j)
    \/ Detect_Call
    \/ \E c \in {<<>>, <<ZeroCtx>>}, b \in StrayBatches : Detect_BeforeInit(c, b)
    \/ Detect_Send
    \/ Detect_Close
    \/ Detect_Take
    \/ \E n \in 1..MaxItems : Detect_Finish(n)
    \/ \E n \in 1..MaxItems : Detect_Panic(n)
    \/ Caller_Cancel
    \/ Detect_Exit
    \/ Detect_Return
    \/ Reporter_Tick
    \/ Reporter_Exit

Next == NextOn(ServerInputs, ClientInputs)

Spec == Init /\ [][Next]_vars

\* The steps of a running Detect call: its producer and its workers.
DetectSteps ==
    \/ Detect_Send
    \/ Detect_Close
    \/ Detect_Take
    \/ \E n \in 1..MaxItems : Detect_Finish(n)
    \/ \E n \in 1..MaxItems : Detect_Panic(n)
    \/ Detect_Exit
    \/ Detect_Return

\* The Go scheduler runs every goroutine that can run, and a select whose
\* doneChan case is ready takes it sooner or later.
\* Whether a call ends depends on how many work items it has and on which of
\* them panic, not on the fingerprints: the server sets are one list per
\* length, the client sets hold a matching and a non-matching value.
LiveServerInputs == {[i \in 1..n |-> 42] : n \in 0..MaxX}
LiveClientInputs == UNION {[1..n -> {42, 7}] : n \in 0..MaxY}
NextLive == NextOn(LiveServerInputs, LiveClientInputs)

SpecLive ==
    /\ Init
    /\ [][NextLive]_vars
    /\ WF_vars(DetectSteps)
    /\ WF_vars(Reporter_Exit)

(***************************************************************************)
(* The package's functions called on their own: one call per behaviour,    *)
(* its arguments drawn from the sets below.                                *)
(***************************************************************************)
\* ReduceToTreeIndex(rawHash, layers): layers 64 and 65 take the bits >= 64 branch
ReduceCalls ==
    {[op |-> "ReduceToTreeIndex", rawHash |-> h, layers |-> L] :
        h \in 0..MaxHash, L \in (0..MaxLayers) \cup {64, 65}}

\* SetupLEParameters(size)
SetupCalls == {[op |-> "SetupLEParameters", size |-> n] : n \in 1..MaxSize}

\* CorrectnessCheck(decrypted, original, le) in a process started with the
\* environment variable PSI_VERBOSE unset (""), "false" or "true"
CheckCalls ==
    {[op |-> "CorrectnessCheck", decrypted |-> d, original |-> o,
      le |-> [Q |-> Q, D |-> D], PSI_VERBOSE |-> e] :
        d \in [Coeffs -> 0..(Q - 1)], o \in [Coeffs -> {0, 1}],
        e \in {"", "false", "true"}}

\* the return statement of CorrectnessCheck at the ring dimension of
\* SetupLEParameters, for every match count
MatchRateCalls ==
    {[op |-> "matchRate", matchCount |-> k, n |-> RingDimension] : k \in 0..RingDimension}

\* the dataset sizes of the documented auto-scaling table
DocumentedSizes == {50, 100, 250, 500, 850, 1000, 2000, 4000}

\* sizes around the memory rule (it starts above 1744 records and falls
\* below the practical minimum above 14824)
LargeSizes == {1744, 1745, 14824, 14825, 20000, 60000}

\* CalculateOptimalWorkers(datasetSize)
WorkerCalls ==
    {[op |-> "CalculateOptimalWorkers", datasetSize |-> n] :
        n \in (0..MaxRecords) \cup DocumentedSizes \cup LargeSizes}

\* A well-formed wire structure: the parameters of a one-element server set
WellFormedParams ==
    SerializeParameters(ReadDigest(0 :> 1), [c \in Coeffs |-> 1], SetupLEParameters(1))

Shorter(seq) == SubSeq(seq, 1, Len(seq) - 1)
MatrixFields == {"A0NTT", "A1NTT", "BNTT", "GNTT"}

\* Wire structures a peer can send: the well-formed one and the same with
\* one part of the wrong shape
ReceivedParams ==
    LET p == WellFormedParams IN
    {p,
     [p EXCEPT !.D = 0],
     [p EXCEPT !.PP = Shorter(@)],
     [p EXCEPT !.PP = Append(@, @[1])],
     [p EXCEPT !.PP[1] = Shorter(@)],
     [p EXCEPT !.Msg = Shorter(@)],
     [p EXCEPT !.Msg = Append(@, 1)]}
    \cup {[p EXCEPT ![f] = <<>>] : f \in MatrixFields}
    \cup {[p EXCEPT ![f] = Shorter(@)] : f \in MatrixFields}
    \cup {[p EXCEPT ![f] = Append(@, @[1])] : f \in MatrixFields}
    \cup {[p EXCEPT ![f][1] = Shorter(@)] : f \in MatrixFields}
    \cup {[p EXCEPT ![f][2] = Shorter(@)] : f \in MatrixFields}
    \cup {[p EXCEPT ![f][1][1] = Shorter(@)] : f \in MatrixFields}
    \cup {[p EXCEPT ![f][1][1] = Append(@, 1)] : f \in MatrixFields}

\* The tree at node level.  A tree maps the nodes <<layer, row>> that were
\* written to their values; a node never written holds the default value.
NodeAt(tree, l, r) == IF <<l, r>> \in DOMAIN tree THEN tree[<<l, r>>] ELSE 0

\* TreeHash(child_left, child_right): A0 * G^-1(v1) + A1 * G^-1(v2), here a
\* mixing of the two values that tells left from right.
TreeHash(left, right) == (3 * left + 5 * right + 1) % 1009

\* for l = Layers - 1 down to 0: node(l, row / 2) := TreeHash(children)
RECURSIVE Rehash(_, _, _)
Rehash(tree, l, r) ==
    IF l = 0 THEN tree
    ELSE LET up == r \div 2
             v == TreeHash(NodeAt(tree, l, 2 * up), NodeAt(tree, l, 2 * up + 1))
         IN  Rehash((<<l - 1, up>> :> v) @@ tree, l - 1, up)

\* Faulty variant of Rehash's use: the path is rehashed against default
\* siblings instead of the stored ones.
RECURSIVE RehashAlone(_, _, _)
RehashAlone(tree, l, r) ==
    IF l = 0 THEN tree
    ELSE LET up == r \div 2
             me == NodeAt(tree, l, r)
             v == IF r % 2 = 0 THEN TreeHash(me, 0) ELSE TreeHash(0, me)
         IN  RehashAlone((<<l - 1, up>> :> v) @@ tree, l - 1, up)

UpdTreeStaleSiblings(tree, layers, row, pk) ==
    RehashAlone((<<layers, row>> :> (pk + 1)) @@ tree, layers, row)

\* Upd at node level: write the public key at the leaf (layer = Layers,
\* row = leafIndex), then recompute the path up to layer 0.
UpdTree(tree, layers, row, pk) ==
    Rehash((<<layers, row>> :> (pk + 1)) @@ tree, layers, row)

\* the digest: layer 0, row 0
DigestOf(tree) == NodeAt(tree, 0, 0)

\* Upd of a list of (tree index, public key) pairs into an empty tree of two
\* layers, in an order the caller chooses
UpdCalls ==
    {[op |-> "Upd", layers |-> 2, pairs |-> ps] :
        ps \in UNION {[1..n -> [idx : 0..3, pk : 1..2]] : n \in 1..MaxPairs}}

\* The key generation phase with its randomness made explicit.  KeyGen takes
\* no argument: what it samples comes from the sampler of the worker that
\* runs it, and every worker has its own sampler, seeded from the master
\* seed.  KeyDraw is the n-th key the sampler of worker w yields.
KeyDraw(seed, w, n) == ((31 * seed + 17 * w + 7 * n) % Q) + 1

\* for i := range workChan: a worker handles the items it received one after
\* the other; item i is the DrawNumber-th of the worker that received it
DrawNumber(worker, i) == Cardinality({i2 \in 1..i : worker[i2] = worker[i]})

\* publicKeys after wg.Wait(), when item i was received by worker[i]
KeyGenKeys(n, seed, worker) ==
    [i \in 1..n |-> KeyDraw(seed, worker[i], DrawNumber(worker, i))]

\* the tree after the first n iterations of the Upd loop
RECURSIVE UpdLoop(_, _, _, _)
UpdLoop(X, layers, keys, n) ==
    IF n = 0 THEN <<>>
    ELSE UpdTree(UpdLoop(X, layers, keys, n - 1), layers,
                 ReduceToTreeIndex(X[n], layers), keys[n])

\* pp := LE.ReadFromDB(db, 0, 0, leParams) after the Upd loop
ServerDigest(X, seed, worker) ==
    LET layers == SetupLEParameters(Len(X)).Layers IN
    DigestOf(UpdLoop(X, layers, KeyGenKeys(Len(X), seed, worker), Len(X)))

\* which worker received which item: the channel hands an item to any of them
Assignments(n) == [1..n -> 1..Min2(CalculateOptimalWorkers(n), n)]

Seeds == {1, 2}

\* ServerInitialize on a list of fingerprints, under a master seed and a
\* schedule of the key generation workers
DigestCalls ==
    {[op |-> "ServerDigest", X |-> xs, seed |-> sd, worker |-> w] :
        xs \in UNION {[1..n -> FP] : n \in 1..MaxPairs}, sd \in Seeds,
        w \in UNION {Assignments(n) : n \in 1..MaxPairs}}

\* The sampler instances of a parallel phase.  An instance is named by the
\* place that creates it and its number there.
\* Faulty variant of WorkerPRNG: NewPRNG is called once, before the workers
\* are started, and they all capture that instance.
WorkerPRNGHoisted(w) == [site |-> "Client", instance |-> 1]

\* workerPRNG, _ := utils.NewPRNG(); workerGaussianSampler := ring.NewGaussianSampler(workerPRNG, ...)
\* at the head of encryption goroutine w: the w-th instance
WorkerPRNG(w) == [site |-> "Client", instance |-> w]

\* the sampler leParams.KeyGen() draws from in key generation goroutine w
KeySampler(w) == [site |-> "KeyGen", instance |-> w]

\* r, e, e0, e1 of item i are drawn from the workerPRNG of the goroutine that
\* received i from cipherChan
ClientUses(worker) ==
    {[sampler |-> WorkerPRNG(worker[i]), goroutine |-> worker[i], item |-> i] :
        i \in DOMAIN worker}

\* the key pair of item i is drawn in the goroutine that received i
KeyGenUses(worker) ==
    {[sampler |-> KeySampler(worker[i]), goroutine |-> worker[i], item |-> i] :
        i \in DOMAIN worker}

\* Client(private_set_Y, pp, msg, le) with the parameters of a one-element
\* server set, under a schedule of min(NumCPU, Y_size) encryption workers
ClientCalls ==
    {[op |-> "Client", Y |-> ys, worker |-> w] :
        ys \in UNION {[1..n -> FP] : n \in 1..MaxPairs},
        w \in UNION {[1..n -> 1..n] : n \in 1..MaxPairs}}

\* DeserializeParameters(params)
DeserializeCalls == {[op |-> "DeserializeParameters", params |-> p] : p \in ReceivedParams}

Calls ==
    ReduceCalls \cup SetupCalls \cup CheckCalls \cup MatchRateCalls \cup WorkerCalls
        \cup DeserializeCalls \cup UpdCalls
        \cup {c \in DigestCalls : Len(c.X) = Len(c.worker)}
        \cup {c \in ClientCalls : Len(c.Y) = Len(c.worker)}

InitCalc ==
    /\ MainInit
    /\ call \in Calls
    /\ ret = <<>>

\* return rawHash & mask
Call_ReduceToTreeIndex ==
    /\ call.op = "ReduceToTreeIndex" /\ ret = <<>>
    /\ ret' = <<ReduceToTreeIndex(call.rawHash, call.layers)>>
    /\ UNCHANGED <<call, mainVars>>

\* leParams, err := SetupLEParameters(size): the constants pass the dimension
\* test and LE.Setup succeeds, so err is nil
Call_SetupLEParameters ==
    /\ call.op = "SetupLEParameters" /\ ret = <<>>
    /\ ret' = <<[leParams |-> SetupLEParameters(call.size), err |-> "nil"]>>
    /\ UNCHANGED <<call, mainVars>>

\* CorrectnessCheck: the rounding loop, the counting loop, the log line and
\* the returned verdict
Call_CorrectnessCheck ==
    /\ call.op = "CorrectnessCheck" /\ ret = <<>>
    /\ LET matchCount == MatchCount(call.decrypted, call.original, call.le) IN
       ret' = <<[binaryDecrypted |-> BinaryDecrypted(call.decrypted, call.le),
                 matchCount |-> matchCount,
                 log |-> MatchRateLog(call.PSI_VERBOSE, matchCount),
                 result |-> CorrectnessCheck(call.decrypted, call.original, call.le)]>>
    /\ UNCHANGED <<call, mainVars>>

\* return float64(matchCount)/float64(le.R.N) >= 0.95
Call_MatchRate ==
    /\ call.op = "matchRate" /\ ret = <<>>
    /\ ret' = <<MatchRateOK(call.matchCount, call.n)>>
    /\ UNCHANGED <<call, mainVars>>

\* return optimal
Call_CalculateOptimalWorkers ==
    /\ call.op = "CalculateOptimalWorkers" /\ ret = <<>>
    /\ ret' = <<CalculateOptimalWorkers(call.datasetSize)>>
    /\ UNCHANGED <<call, mainVars>>

\* pp, msg, le, err := DeserializeParameters(params)
Call_DeserializeParameters ==
    /\ call.op = "DeserializeParameters" /\ ret = <<>>
    /\ ret' = <<DeserializeResult(call.params)>>
    /\ UNCHANGED <<call, mainVars>>

\* the positions of call.pairs inserted so far, in the order of insertion,
\* and the tree they have built
UpdOrder == IF ret = <<>> THEN <<>> ELSE ret[1].order
UpdTreeNow == IF ret = <<>> THEN <<>> ELSE ret[1].tree

\* LE.Upd(db, index, layers, pk, le) for the i-th pair of the list
Call_Upd(i) ==
    /\ call.op = "Upd"
    /\ i \in 1..Len(call.pairs)
    /\ i \notin Range(UpdOrder)
    /\ ret' = <<[order |-> Append(UpdOrder, i),
                 tree |-> UpdTree(UpdTreeNow, call.layers, call.pairs[i].idx, call.pairs[i].pk)]>>
    /\ UNCHANGED <<call, mainVars>>

\* ServerInitialize from SetupLEParameters to the read of pp
Call_ServerDigest ==
    /\ call.op = "ServerDigest" /\ ret = <<>>
    /\ ret' = <<[leParams |-> SetupLEParameters(Len(call.X)),
                 pp |-> ServerDigest(call.X, call.seed, call.worker),
                 uses |-> KeyGenUses(call.worker)]>>
    /\ UNCHANGED <<call, mainVars>>

\* C := Client(private_set_Y, pp, msg, le)
Call_Client ==
    /\ call.op = "Client" /\ ret = <<>>
    /\ ret' = <<[C |-> Client(call.Y, [le |-> SetupLEParameters(1),
                                       msg |-> [c \in Coeffs |-> 1]]),
                 uses |-> ClientUses(call.worker)]>>
    /\ UNCHANGED <<call, mainVars>>

NextCalc ==
    \/ Call_ServerDigest
    \/ Call_Client
    \/ \E i \in 1..MaxPairs : Call_Upd(i)
    \/ Call_DeserializeParameters
    \/ Call_CalculateOptimalWorkers
    \/ Call_ReduceToTreeIndex
    \/ Call_SetupLEParameters
    \/ Call_CorrectnessCheck
    \/ Call_MatchRate

SpecCalc == InitCalc /\ [][NextCalc]_vars

(***************************************************************************)
(* Properties                                                              *)
(***************************************************************************)
\* the low `layers` bits of a fingerprint
LowBits(x, layers) == x % Pow2(layers)

\* ServerInitialize returned a context
Initialised == initResult = "ctx"

\* DetectIntersectionWithContext returned on a context of ServerInitialize
Detected == Initialised /\ detResult.returned

LayersOfCtx == ctx[1].LEParams.Layers
ServerSet == Range(private_set_X)
ClientSet == Range(clientHashes)
ResultSet == Range(detResult.Z)

\* no two distinct fingerprints of S share their low Layers bits
NoAliasing(S) ==
    \A a \in S, b \in S : a # b => LowBits(a, LayersOfCtx) # LowBits(b, LayersOfCtx)

\* the list the server received is the one ClientEncrypt returned
AsEncrypted == clientCiphertexts = <<Client(clientHashes, GetPublicParameters(ctx[1]))>>

\* the submitted list holds a ciphertext encoding x
Submitted(x) ==
    \E j \in 1..Len(clientHashes) : clientHashes[j] = x /\ ~Malformed(Batch[j])

\* C1: when no two distinct fingerprints of X \cup Y share their low Layers
\* bits, the list DetectIntersectionWithContext returns for
\* ServerInitialize(X) and ClientEncrypt(Y) is, as a set, exactly X \cap Y;
\* the trivial-match scenario gives {200, 400}, the disjoint one the empty set.
C1_ExactIntersection ==
    (Detected /\ AsEncrypted /\ NoAliasing(ServerSet \cup ClientSet))
        => ResultSet = ServerSet \cap ClientSet

\* the trivial-match scenario has run and returned {200, 400}
C1_TrivialMatchReturned ==
    /\ Detected
    /\ private_set_X = <<100, 200, 300, 400, 500>>
    /\ clientHashes = <<200, 400, 700>>
    /\ AsEncrypted
    /\ NoAliasing(ServerSet \cup ClientSet)
    /\ ResultSet = {200, 400}

\* C2 as stated: every server fingerprint for which the client submitted a
\* ciphertext is in the result.
C2_EveryInsertedReported ==
    Detected => \A k \in 1..X_size :
        Submitted(private_set_X[k]) => private_set_X[k] \in ResultSet

\* a different server fingerprint with the same low Layers bits was inserted
\* after the last insertion of x: the leaf of x holds the other one's key
Overwritten(x) ==
    \E k2 \in 1..X_size :
        /\ private_set_X[k2] # x
        /\ LowBits(private_set_X[k2], LayersOfCtx) = LowBits(x, LayersOfCtx)
        /\ \A k \in (k2 + 1)..X_size : private_set_X[k] # x

\* C2: every server fingerprint x whose leaf was not overwritten by a
\* different server fingerprint sharing its low Layers bits is in the result
\* whenever the client submitted a ciphertext encoding x.
C2_SurvivingInsertedReported ==
    Detected => \A k \in 1..X_size :
        (Submitted(private_set_X[k]) /\ ~Overwritten(private_set_X[k]))
            => private_set_X[k] \in ResultSet

\* two server fingerprints alias, the client asked for both, and the one
\* inserted last is reported
C2_SurvivorReported ==
    /\ Detected
    /\ \E k \in 1..X_size, k2 \in 1..X_size :
        /\ Overwritten(private_set_X[k2])
        /\ Submitted(private_set_X[k2])
        /\ ~Overwritten(private_set_X[k])
        /\ Submitted(private_set_X[k])
        /\ private_set_X[k] \in ResultSet

\* y is not a server fingerprint and shares its low Layers bits with none
Foreign(y) ==
    /\ y \notin ServerSet
    /\ \A x \in ServerSet : LowBits(y, LayersOfCtx) # LowBits(x, LayersOfCtx)

\* C3: a client fingerprint that is not in X and aliases no server
\* fingerprint never appears in the result, and it causes no report: every
\* reported fingerprint is owed to a client fingerprint that is in X or
\* aliases X and is addressed to the same leaf.
C3_ForeignNeverReported ==
    (Initialised /\ pc \in {"detect", "detectReturned"}) =>
        /\ \A y \in ClientSet : Foreign(y) => y \notin Range(Z)
        /\ \A z \in Range(Z) : \E y \in ClientSet :
              ~Foreign(y) /\ LowBits(y, LayersOfCtx) = LowBits(z, LayersOfCtx)
        /\ (\A y \in ClientSet : Foreign(y)) => Z = <<>>

\* a run over a list that mixes a foreign fingerprint with a member returned
C3_ForeignProcessed ==
    /\ Detected
    /\ \E y \in ClientSet : Foreign(y)
    /\ detResult.Z # <<>>
    /\ processedCount = Len(clientHashes) * X_size

\* the values of a list are pairwise different
NoDuplicates(list) ==
    \A a \in 1..Len(list), b \in 1..Len(list) : a # b => list[a] # list[b]

\* C4: the list DetectIntersectionWithContext builds and returns never holds
\* a value twice, whatever the server list and the client's ciphertexts.
C4_NoDuplicateValues == NoDuplicates(Z) /\ NoDuplicates(detResult.Z)

\* Server = {42}, Client = {42, 42, 42} returned {42}
C4_RepeatedClientValue ==
    /\ Detected
    /\ private_set_X = <<42>>
    /\ clientHashes = <<42, 42, 42>>
    /\ detResult.Z = <<42>>

\* the fingerprints a context owes to a batch: those of the k for which some
\* ciphertext j passes the check.  A function of the context and the batch.
Owed(c, batch) ==
    {c.OriginalHashes[ItemK(n, Len(c.OriginalHashes))] :
        n \in {m \in 1..(Len(batch) * Len(c.OriginalHashes)) : ItemMatches(c, batch, m)}}

\* C5: for a fixed context and a fixed ciphertext list the set returned is
\* the same in every interleaving of the workers: it is the set the context
\* owes to the batch; only the order of the list may differ.
C5_SetIndependentOfSchedule ==
    (detResult.returned /\ ctx # <<>>) => ResultSet = Owed(ctx[1], Batch)

\* the two matches of a run were appended in the reverse of the send order
C5_ReversedOrder ==
    /\ Detected
    /\ private_set_X = <<42, 7>>
    /\ clientHashes = <<42, 7>>
    /\ detResult.Z = <<7, 42>>

\* the control states of a ServerInitialize call and of its outcome
InitPcs == {"sqlOpen", "initTreeDB", "keyGen", "upd", "loadTree", "witGen",
            "initFailed", "ready"}

\* C6: ServerInitialize on an empty list returns the empty-input error and no
\* context at once: the store was never opened and holds nothing, no worker
\* pool was started, no key was generated.
C6_EmptyServerSetRejected ==
    (pc \in InitPcs /\ X_size = 0) =>
        /\ pc = "initFailed"
        /\ initResult = "server set is empty"
        /\ ctx = <<>>
        /\ db = ClosedDB
        /\ faults = 0
        /\ pool = NoPool
        /\ leParams = <<>>
        /\ publicKeys = <<>> /\ privateKeys = <<>>

\* ServerInitialize was called with the empty list and has returned
C6_EmptyCallReturned ==
    pc = "initFailed" /\ X_size = 0 /\ initResult = "server set is empty"

\* C7: DetectIntersectionWithContext on a context of ServerInitialize and an
\* empty ciphertext list terminates (while it runs some step of it is
\* enabled, and it performs no work item) and returns the empty set with a
\* nil error.
C7_EmptyBatchReturnsEmpty ==
    (Initialised /\ clientCiphertexts = <<<<>>>>) =>
        /\ pc = "detect" =>
              /\ ENABLED (Detect_Close \/ Detect_Exit \/ Detect_Return)
              /\ pool.cap = 0
              /\ Z = <<>>
        /\ pc \in {"ready", "detect", "detectReturned"}
        /\ detResult.returned => detResult.Z = <<>> /\ detResult.err = "nil"

\* Detect returned on a valid context and an empty ciphertext list
C7_EmptyBatchReturned ==
    Detected /\ clientCiphertexts = <<<<>>>> /\ pc = "detectReturned"

\* the errors ServerInitialize returns for a store failure
StoreErrors == {"open tree db", "failed to load tree into memory"}

\* every leaf of the |X| insertions is in the store
AllLeavesCommitted ==
    \A k \in 1..X_size :
        LowBits(private_set_X[k], leParams[1].Layers) \in DOMAIN db.leaves

\* C8: when the store cannot be opened, its tables cannot be created or a
\* leaf insertion fails, ServerInitialize returns an error and no context;
\* and from the moment the digest is read, hence whenever a context is
\* returned, every table exists and all |X| leaves are committed.
C8_StoreFailureReturnsError ==
    /\ (pc \in {"initFailed", "ready"} /\ faults > 0) =>
          initResult \in StoreErrors /\ ctx = <<>>
    /\ (pc \in {"loadTree", "witGen", "ready"}) =>
          StoreComplete(db, leParams[1].Layers) /\ AllLeavesCommitted

\* C9: DetectIntersectionWithContext called before any ServerInitialize, on
\* a nil or a never-initialised context, returns the empty-input error at
\* once: it neither panics nor runs the detection nor returns a match set.
C9_DetectBeforeInitRejected ==
    (initResult = "none" /\ pc \notin InitPcs /\ pc # "idle") =>
        /\ detResult.err = "EmptyInput"
        /\ ~detResult.returned
        /\ pc \notin {"detect", "detectPanicked", "detectReturned"}

\* C10: what DeserializeParameters makes of SerializeParameters(p) equals p
\* in every field, sigma and bound included.
C10_RoundTripExact ==
    (wire # <<>> /\ clientParams # <<>>) =>
        clientParams[1] = GetPublicParameters(ctx[1])

\* a call of `op` has returned
Returned(op) == call.op = op /\ ret # <<>>

LowBits64(h, L) == IF L >= 31 THEN h ELSE h % Pow2(L)

\* C13: for every hash h and every layer count L, ReduceToTreeIndex(h, L) is
\* h mod 2^L and lies in [0, 2^L - 1].
C13_ReduceIsLowBits ==
    Returned("ReduceToTreeIndex") =>
        /\ ret[1] = LowBits64(call.rawHash, call.layers)
        /\ ret[1] >= 0
        /\ call.layers < 31 => ret[1] <= Pow2(call.layers) - 1

\* C14: a decrypted coefficient v in [0, Q) is rounded to 1 exactly when it
\* lies strictly between Q/4 and 3Q/4, compared exactly (4 v against Q and
\* 3 Q), and to 0 otherwise.
C14_RoundsOnOpenInterval ==
    Returned("CorrectnessCheck") =>
        \A c \in Coeffs :
            LET v == call.decrypted[c] IN
            ret[1].binaryDecrypted[c] = IF 4 * v > call.le.Q /\ 4 * v < 3 * call.le.Q THEN 1 ELSE 0

\* C15: CorrectnessCheck returns true exactly when the rounded decrypted
\* polynomial agrees with the message on at least 95% of the D positions
\* (at least 244 of 256 at D = 256), and false otherwise: a boolean, never
\* an error.
C15_ThresholdIs95Percent ==
    /\ Returned("CorrectnessCheck") =>
          LET agree == {c \in Coeffs : ret[1].binaryDecrypted[c] = call.original[c]} IN
          /\ ret[1].result \in BOOLEAN
          /\ ret[1].result <=> (20 * Cardinality(agree) >= 19 * call.le.D)
    /\ Returned("matchRate") =>
          /\ ret[1] \in BOOLEAN
          /\ ret[1] <=> (20 * call.matchCount >= 19 * call.n)
          /\ call.n = 256 => (ret[1] <=> call.matchCount >= 244)

\* the verdict at 244 agreeing positions of 256
C15_AtThreshold ==
    Returned("matchRate") /\ call.n = 256 /\ call.matchCount = 244 /\ ret[1] = TRUE

\* C19: with PSI_VERBOSE set to "false", CorrectnessCheck prints no
\* match-rate line for any decryption.
C19_FalseSuppressesLog ==
    (Returned("CorrectnessCheck") /\ call.PSI_VERBOSE = "false") => ret[1].log = <<>>

Clamp(x, lo, hi) == IF x < lo THEN lo ELSE IF x > hi THEN hi ELSE x

\* clamp(floor(1.5 sqrt(n)), 16, 48): floor(1.5 sqrt(n)) is the largest k
\* with 4 k^2 <= 9 n
CacheRule(n) ==
    IF 4 * 48 * 48 <= 9 * n THEN 48
    ELSE Clamp(CHOOSE k \in 0..47 : 4 * k * k <= 9 * n /\ 4 * (k + 1) * (k + 1) > 9 * n,
               16, 48)

\* (117 * 0.85) / (n * 0.035 * 1.15) * 48 rounded down, in units of 10^-5 GB
MemoryRule(n) == (9945000 * 48) \div (n * 4025)

\* the sizing formula of the specification
WorkersFormula(n) ==
    LET memory_limit == IF n * 4025 <= 60 * 117000 THEN 48 ELSE MemoryRule(n)
        cache_limit == IF n <= 100 THEN 48 ELSE CacheRule(n)
    IN  Clamp(Min2(Min2(memory_limit, cache_limit), 48), 8, 48)

C17_WorkersWithinRange ==
    Returned("CalculateOptimalWorkers") => ret[1] \in 8..48

\* a size whose memory limit (5) is below the practical minimum
C17_RaisedToMinimum ==
    Returned("CalculateOptimalWorkers") /\ call.datasetSize = 20000 /\ ret[1] = 8

\* the documented auto-scaling table
DocumentedWorkers ==
    [n \in DocumentedSizes |->
        CASE n = 50 -> 48 [] n = 100 -> 48 [] n = 250 -> 48 [] n = 500 -> 34
          [] n = 850 -> 39 [] n = 1000 -> 38 [] n = 2000 -> 34 [] n = 4000 -> 29]

\* C18: the sizing yields the documented counts: 48 workers for 50, 100 and
\* 250 records, 34 for 500, 39 for 850, 38 for 1,000, 34 for 2,000 and 29
\* for 4,000.
C18_DocumentedWorkerCounts ==
    (Returned("CalculateOptimalWorkers") /\ call.datasetSize \in DocumentedSizes)
        => ret[1] = DocumentedWorkers[call.datasetSize]

\* the shape checks of a wire structure: the digest has N polynomials, every
\* coefficient array has D entries, every matrix is present with N rows of M
\* (BNTT: M2) columns
MatrixShapeOK(mat, rows, cols, d) ==
    /\ Len(mat) = rows
    /\ \A i \in 1..Len(mat) :
          /\ Len(mat[i]) = cols
          /\ \A j \in 1..Len(mat[i]) : Len(mat[i][j]) = d

ShapeOK(p) ==
    /\ Len(p.PP) = p.N
    /\ \A i \in 1..Len(p.PP) : Len(p.PP[i]) = p.D
    /\ Len(p.Msg) = p.D
    /\ MatrixShapeOK(p.A0NTT, p.N, p.M, p.D)
    /\ MatrixShapeOK(p.A1NTT, p.N, p.M, p.D)
    /\ MatrixShapeOK(p.BNTT, p.N, p.M2, p.D)
    /\ MatrixShapeOK(p.GNTT, p.N, p.M, p.D)

\* C11: DeserializeParameters returns an error and no parameters whenever
\* the serialized structure fails a shape check; mismatched data is never
\* truncated, zero-padded or otherwise patched into a returned parameter set.
C11_ShapeFailureIsAnError ==
    (Returned("DeserializeParameters") /\ ~ShapeOK(call.params)) =>
        ret[1].err # "nil" /\ ret[1].value = <<>>

\* every pair of the list has been inserted
AllInserted == call.op = "Upd" /\ Len(UpdOrder) = Len(call.pairs)

\* the tree the pairs build when inserted in the order of the list
RECURSIVE InListOrder(_, _, _)
InListOrder(pairs, layers, n) ==
    IF n = 0 THEN <<>>
    ELSE UpdTree(InListOrder(pairs, layers, n - 1), layers, pairs[n].idx, pairs[n].pk)

\* C20 as stated: whatever the pairs, every insertion order ends with the
\* digest of the insertion in list order.
C20_DigestOrderFree ==
    AllInserted =>
        DigestOf(UpdTreeNow) = DigestOf(InListOrder(call.pairs, call.layers, Len(call.pairs)))

\* no two pairs put different public keys on one tree index
NoConflict(pairs) ==
    \A a \in 1..Len(pairs), b \in 1..Len(pairs) :
        pairs[a].idx = pairs[b].idx => pairs[a].pk = pairs[b].pk

\* C20: for every multiset of (tree index, public key) pairs in which no two
\* pairs put different public keys on the same tree index, every insertion
\* order yields the same final digest (layer 0, row 0).
C20_DigestOrderFreeWithoutConflict ==
    (AllInserted /\ NoConflict(call.pairs)) =>
        DigestOf(UpdTreeNow) = DigestOf(InListOrder(call.pairs, call.layers, Len(call.pairs)))

\* two pairs on different leaves were inserted last first
C20_InsertedInReverse ==
    /\ AllInserted
    /\ Len(call.pairs) = 2
    /\ call.pairs[1].idx # call.pairs[2].idx
    /\ UpdOrder = <<2, 1>>

\* the server fingerprints that land on the tree index idx
CollidersAt(idx) == {x \in ServerSet : LowBits(x, leParams[1].Layers) = idx}

\* the tree indices on which two distinct server fingerprints land
CollisionIndices ==
    {idx \in {LowBits(x, leParams[1].Layers) : x \in ServerSet} :
        Cardinality(CollidersAt(idx)) > 1}

\* the keys generated for the fingerprints of S
KeysOf(S) == {publicKeys[k] : k \in {i \in 1..X_size : private_set_X[i] \in S}}

\* C21: when two distinct server fingerprints share their low Layers bits,
\* ServerInitialize (no fault injected) ends neither in an error nor in a
\* panic; once the insertions are over the shared index holds one leaf, the
\* key of one of the colliding fingerprints, and the store holds one leaf
\* per index; and a Detect run on a list with a well-formed ciphertext
\* addressed to that index neither panics nor fails and reports one of the
\* colliding fingerprints.
C21_CollisionHandled ==
    (leParams # <<>> /\ CollisionIndices # {}) =>
        /\ faults = 0 => (initResult \in {"none", "ctx"} /\ pc \notin {"initFailed", "crashed"})
        /\ pc \in {"loadTree", "witGen", "ready", "detect", "detectReturned"} =>
              /\ \A idx \in CollisionIndices :
                    idx \in DOMAIN db.leaves /\ db.leaves[idx] \in KeysOf(CollidersAt(idx))
              /\ Cardinality(DOMAIN db.leaves) =
                    Cardinality({LowBits(x, leParams[1].Layers) : x \in ServerSet})
        /\ Initialised => (pc # "detectPanicked" /\ detResult.err = "nil")
        /\ Detected =>
              \A idx \in CollisionIndices :
                  (\E j \in 1..Len(Batch) : ~Malformed(Batch[j]) /\ Batch[j].idx = idx)
                      => ResultSet \cap CollidersAt(idx) # {}

\* 42 and 106 share index 10; the client asked for 42 and got 106
C21_CollisionDetected ==
    /\ Detected
    /\ private_set_X = <<42, 106>>
    /\ CollisionIndices = {10}
    /\ clientHashes = <<42>>
    /\ AsEncrypted
    /\ detResult.Z = <<106>>

\* C22: a panic raised inside a worker of a parallel phase (key generation,
\* witness generation, detection) is recovered and logged and never ends the
\* process; and a Detect call in which workers panicked still returns, with
\* the matches the workers have collected.
C22_WorkerPanicsRecovered ==
    /\ pc # "crashed"
    /\ initResult # "worker panic"
    /\ (pc = "detectReturned" /\ panicLog > 0) =>
          /\ detResult.returned
          /\ detResult.err = "nil"
          /\ detResult.Z = Z

\* C23: once the caller has signalled cancellation, Detect dispatches no
\* further work item and its workers start none: only the items in flight
\* are completed, and the call returns.
C23_CancelStopsDispatch ==
    [][(pc = "detect" /\ cancelled) =>
          /\ pool'.sent = pool.sent
          /\ pool'.taken = pool.taken]_vars

\* C24: two executions of ServerInitialize on the same fingerprint list
\* under the same seed end with the same public matrices and the same
\* digest, however the key generation workers were scheduled.
C24_DigestIndependentOfSchedule ==
    Returned("ServerDigest") =>
        \A w2 \in Assignments(Len(call.X)) :
            /\ ret[1].leParams = SetupLEParameters(Len(call.X))
            /\ ret[1].pp = ServerDigest(call.X, call.seed, w2)

\* the states of ServerInitialize from the tree load on, and of what follows
AfterUpdPcs == {"loadTree", "witGen", "ready", "detect", "detectReturned"}

\* the phases of ServerInitialize in a state
PhasesOrderedHere ==
    /\ pc \in {"sqlOpen", "initTreeDB", "keyGen"} => db.leaves = <<>>
    /\ pc = "upd" =>
          /\ pool = NoPool
          /\ \A i \in 1..X_size :
                /\ publicKeys[i] = KeyGen(i).pk
                /\ hashedClient[i] = LowBits(private_set_X[i], leParams[1].Layers)
          /\ DOMAIN db.leaves = {hashedClient[i] : i \in 1..(updI - 1)}
          /\ memoryTree = <<>> /\ witnessesVec = <<>>
    /\ pc \in {"loadTree", "witGen"} =>
          /\ updI = X_size + 1
          /\ DOMAIN db.leaves = {hashedClient[i] : i \in 1..X_size}
    /\ pc = "witGen" => memoryTree = db.leaves
    /\ (pc \in AfterUpdPcs /\ initResult \in {"none", "ctx"} /\ witnessesVec # <<>>) =>
          \A i \in 1..X_size :
              witnessesVec[i] # NoWitness =>
                  /\ witnessesVec[i] = WitGenMemory(db.leaves, hashedClient[i])
                  /\ witnessesVec[i].leaf # 0

\* C25: in ServerInitialize every KeyGen task has completed before the first
\* Upd starts; the leaves are written one per step by the Upd loop alone,
\* while no worker runs; the tree load and every witness generation come
\* after the last Upd, so every witness is computed from a tree that holds
\* all |X| inserted leaves.
C25_PhasesOrdered ==
    /\ []PhasesOrderedHere
    /\ [][db'.leaves # db.leaves =>
            /\ pc = "upd" /\ pool = NoPool /\ updI' = updI + 1
            /\ \E row \in DOMAIN db'.leaves :
                  \A r \in DOMAIN db.leaves : r # row => db'.leaves[r] = db.leaves[r]]_vars

\* the second witness of a two-element list is being computed
C25_WitnessAfterAllUpd ==
    /\ pc = "witGen"
    /\ X_size = 2
    /\ hashedClient[1] # hashedClient[2]
    /\ witnessesVec[1] # NoWitness
    /\ witnessesVec[2] = NoWitness
    /\ 2 \in pool.inflight

\* the pairs (j, k) of a set of item numbers
PairsOf(S) == {<<ItemJ(n, CtxSize), ItemK(n, CtxSize)>> : n \in S}

\* no ciphertext of the list makes a worker panic
NoPanicRun == \A j \in 1..Len(Batch) : ~Malformed(Batch[j])

\* C26: in a Detect run in which no worker panics, the items the producer
\* has sent are pairwise different pairs (j, k), all of them together are
\* exactly the pairs of 1..|Y| x 1..|X|; an item taken from the channel is
\* either held by one worker or was processed once; and at the return every
\* pair was sent, taken and processed: none skipped, none processed twice.
C26_EveryPairOnce ==
    (Initialised /\ pc \in {"detect", "detectReturned"} /\ NoPanicRun) =>
        /\ Cardinality(PairsOf(1..pool.sent)) = pool.sent
        /\ PairsOf(1..pool.cap) = (1..Len(Batch)) \X (1..CtxSize)
        /\ pool.inflight \subseteq 1..pool.taken
        /\ pool.taken <= pool.sent /\ pool.sent <= pool.cap
        /\ processedCount + Cardinality(pool.inflight) = pool.taken
        /\ pc = "detectReturned" =>
              /\ pool.sent = Len(Batch) * CtxSize
              /\ pool.taken = pool.sent
              /\ processedCount = Len(Batch) * CtxSize

\* a run over two ciphertexts and two server elements has returned
C26_AllPairsProcessed ==
    /\ Detected
    /\ NoPanicRun
    /\ Len(Batch) = 2 /\ CtxSize = 2
    /\ processedCount = 4

AddressedTo(k) ==
    \E j \in 1..Len(Batch) :
        /\ ~Malformed(Batch[j])
        /\ Batch[j].idx = LowBits(ctx[1].OriginalHashes[k], LayersOfCtx)

\* the leaf of server element k holds the public key generated for k
LeafHoldsKeyOf(k) ==
    LET row == LowBits(ctx[1].OriginalHashes[k], LayersOfCtx)
    IN  row \in DOMAIN db.leaves /\ db.leaves[row] = publicKeys[k]

\* C30: every element of the list DetectIntersectionWithContext returns is a
\* fingerprint x_k of the initialised server set such that a submitted
\* ciphertext was encrypted at the tree index x_k & (2^Layers - 1) and the
\* key stored at that leaf is the public key generated for element k.
C30_ReportedOnlyIfAddressedAndKeyed ==
    Detected =>
        \A i \in 1..Len(detResult.Z) :
            \E k \in 1..Len(ctx[1].OriginalHashes) :
                /\ ctx[1].OriginalHashes[k] = detResult.Z[i]
                /\ ctx[1].OriginalHashes[k] = private_set_X[k]
                /\ AddressedTo(k)
                /\ LeafHoldsKeyOf(k)

\* a call returned an element while the result leaves out a server element
\* whose leaf a submitted ciphertext was addressed to: its key was overwritten
C30_AddressedButNotKeyed ==
    /\ Detected
    /\ detResult.Z # <<>>
    /\ \E k \in 1..Len(ctx[1].OriginalHashes) :
          /\ ctx[1].OriginalHashes[k] \notin ResultSet
          /\ AddressedTo(k)
          /\ ~LeafHoldsKeyOf(k)

====
